---- MODULE Spec2Model ----
(***************************************************************************)
(* Envelope encryption of transaction payloads (packages/crypto) and the   *)
(* HTTP service that stores the resulting records (apps/api).              *)
(*                                                                         *)
(* Cryptography is modelled in the ideal (symbolic) way: random values are *)
(* fresh, and an AES-256-GCM open succeeds exactly on the (key, nonce,     *)
(* ciphertext, tag, aad) tuples a seal has produced.  Byte strings carry   *)
(* their real length and an opaque content; hex text carries its length,   *)
(* its letter case and whether all its characters are hex digits.          *)
(***************************************************************************)
EXTENDS Integers, Sequences, FiniteSets, TLC

\* ------------------------------------------------------------------------
\* Bounds of the model
\* ------------------------------------------------------------------------
MaxCalls == 1
MaxTampers == 1
MaxPosts == 2

\* ------------------------------------------------------------------------
\* envelope.ts: constants
\* ------------------------------------------------------------------------
NONCE_BYTES == 12
TAG_BYTES == 16
KEY_BYTES == 32

AlgTag == "AES-256-GCM"
MkVersion == 1

\* ------------------------------------------------------------------------
\* Byte strings (Buffer) and hex text
\* ------------------------------------------------------------------------
\* A Buffer: its length in bytes and its content.  A content is
\* [k, i, s]: k says where the bytes come from, i numbers the random value
\* or the seal, s is the text of utf8 bytes.
Content(k, i, s) == [k |-> k, i |-> i, s |-> s]
Buf(len, val) == [len |-> len, val |-> val]

\* A hex text: n characters, wf = every character is in [0-9a-fA-F],
\* up = written with upper-case letters, b = the bytes it spells.
Hex(wf, n, up, b) == [wf |-> wf, n |-> n, up |-> up, b |-> b]

\* Buffer.prototype.toString("hex"): two lower-case digits per byte.
toHex(buf) == Hex(TRUE, 2 * buf.len, FALSE, buf.val)

\* Buffer.from(hex, "hex") on a valid hex text: case-insensitive.
bufferFromHex(hex) == Buf(hex.n \div 2, hex.b)

isValidHex(str) == str.n % 2 = 0 /\ str.n > 0 /\ str.wf

\* A thrown Error is its message; "" means the call returned normally.
NoError == ""

\* Mutant: the length comparison is left out.
assertHexLength_anyLength(hex, expectedBytes, field) ==
    IF ~isValidHex(hex) THEN field \o ": invalid hex" ELSE NoError

assertHexLength(hex, expectedBytes, field) ==
    IF ~isValidHex(hex) THEN field \o ": invalid hex"
    ELSE IF hex.n # expectedBytes * 2 THEN field \o ": invalid length"
    ELSE NoError

\* fromHex: the error it throws, and the Buffer it returns otherwise.
fromHexError(hex, field) ==
    IF ~isValidHex(hex) THEN field \o ": invalid hex" ELSE NoError

fromHex(hex) == bufferFromHex(hex)

\* Mutant: the master key is decoded without being checked.
parseMasterKeyHexError_unchecked(masterKeyHex) == NoError

parseMasterKeyHexError(masterKeyHex) ==
    assertHexLength(masterKeyHex, KEY_BYTES, "master key")

\* Mutant: a zero-filled key of the right length instead of the decoded one.
parseMasterKeyHex_zeroKey(masterKeyHex) ==
    Buf(KEY_BYTES, Content("zero", 0, <<>>))

parseMasterKeyHex(masterKeyHex) == bufferFromHex(masterKeyHex)

\* ------------------------------------------------------------------------
\* JavaScript values and JSON
\* ------------------------------------------------------------------------
\* A value is [kind, lit, kids]: kids are the elements of an array, or the
\* members [key, val] of an object, in order.
JsVal(kind, lit) == [kind |-> kind, lit |-> lit, kids |-> <<>>]
JsArray(kids) == [kind |-> "array", lit |-> "", kids |-> kids]
JsObject(kids) == [kind |-> "object", lit |-> "", kids |-> kids]
Member(key, val) == [key |-> key, val |-> val]

JsUndefined == JsVal("undefined", "")
JsNull == JsVal("null", "")

\* Kinds JSON.stringify has no representation for.
Unrepresentable == {"undefined", "function", "symbol"}
\* Kinds on which JSON.stringify throws a TypeError, wherever they occur.
Throwing == {"bigint", "circular"}

RECURSIVE stringifyThrows(_)
stringifyThrows(v) ==
    \/ v.kind \in Throwing
    \/ /\ v.kind = "array"
       /\ \E i \in 1..Len(v.kids) : stringifyThrows(v.kids[i])
    \/ /\ v.kind = "object"
       /\ \E i \in 1..Len(v.kids) : stringifyThrows(v.kids[i].val)

RECURSIVE containsKind(_, _)
containsKind(v, kind) ==
    \/ v.kind = kind
    \/ /\ v.kind = "array"
       /\ \E i \in 1..Len(v.kids) : containsKind(v.kids[i], kind)
    \/ /\ v.kind = "object"
       /\ \E i \in 1..Len(v.kids) : containsKind(v.kids[i].val, kind)

\* The message of the TypeError.
stringifyThrowMessage(v) ==
    IF containsKind(v, "bigint") THEN "Do not know how to serialize a BigInt"
    ELSE "Converting circular structure to JSON"

\* QuoteJSONString on the characters of the model: quote and backslash
\* are escaped.
quoteChars(lit) ==
    IF lit = "\"" THEN "\\\"" ELSE IF lit = "\\" THEN "\\\\" ELSE lit

unquoteChars(tok) ==
    IF tok = "\\\"" THEN "\"" ELSE IF tok = "\\\\" THEN "\\" ELSE tok

quote(lit) == <<"\"", quoteChars(lit), "\"">>

RECURSIVE serializeProperty(_), serializeElements(_, _), serializeMembers(_, _, _)
\* SerializeJSONProperty for a representable, non-throwing value: the text
\* as a sequence of tokens.
serializeProperty(v) ==
    CASE v.kind = "null" -> <<"null">>
      [] v.kind = "boolean" -> <<v.lit>>
      [] v.kind = "number" ->
            IF v.lit \in {"NaN", "Infinity"} THEN <<"null">> ELSE <<v.lit>>
      [] v.kind = "string" -> quote(v.lit)
      [] v.kind = "array" -> <<"[">> \o serializeElements(v.kids, 1) \o <<"]">>
      [] v.kind = "object" -> <<"{">> \o serializeMembers(v.kids, 1, TRUE) \o <<"}">>
      [] OTHER -> <<"null">>

\* Array elements: an unrepresentable element is written null.
serializeElements(kids, i) ==
    IF i > Len(kids) THEN <<>>
    ELSE (IF i > 1 THEN <<",">> ELSE <<>>)
         \o (IF kids[i].kind \in Unrepresentable THEN <<"null">>
             ELSE serializeProperty(kids[i]))
         \o serializeElements(kids, i + 1)

\* Object members: a member with an unrepresentable value is left out.
serializeMembers(kids, i, first) ==
    IF i > Len(kids) THEN <<>>
    ELSE IF kids[i].val.kind \in Unrepresentable
         THEN serializeMembers(kids, i + 1, first)
         ELSE (IF first THEN <<>> ELSE <<",">>)
              \o quote(kids[i].key) \o <<":">> \o serializeProperty(kids[i].val)
              \o serializeMembers(kids, i + 1, FALSE)

\* JSON.stringify(value): [out, text, message], out one of "text",
\* "undefined" (the call returns undefined) and "throw".
JSONstringify(v) ==
    IF stringifyThrows(v)
    THEN [out |-> "throw", text |-> <<>>, message |-> stringifyThrowMessage(v)]
    ELSE IF v.kind \in Unrepresentable
    THEN [out |-> "undefined", text |-> <<>>, message |-> ""]
    ELSE [out |-> "text", text |-> serializeProperty(v), message |-> ""]

NumberTokens == {"0", "1", "42", "100"}

ParseFail == [ok |-> FALSE, val |-> JsUndefined, next |-> 0]
ParseOk(val, next) == [ok |-> TRUE, val |-> val, next |-> next]

RECURSIVE parseValue(_, _), parseElements(_, _, _), parseMembers(_, _, _)
\* JSON.parse, by recursive descent from token i.
parseValue(t, i) ==
    IF i > Len(t) THEN ParseFail
    ELSE CASE t[i] = "null" -> ParseOk(JsNull, i + 1)
           [] t[i] \in {"true", "false"} -> ParseOk(JsVal("boolean", t[i]), i + 1)
           [] t[i] \in NumberTokens -> ParseOk(JsVal("number", t[i]), i + 1)
           [] t[i] = "\"" ->
                IF i + 2 <= Len(t) /\ t[i + 2] = "\""
                THEN ParseOk(JsVal("string", unquoteChars(t[i + 1])), i + 3)
                ELSE ParseFail
           [] t[i] = "[" ->
                IF i + 1 <= Len(t) /\ t[i + 1] = "]"
                THEN ParseOk(JsArray(<<>>), i + 2)
                ELSE parseElements(t, i + 1, <<>>)
           [] t[i] = "{" ->
                IF i + 1 <= Len(t) /\ t[i + 1] = "}"
                THEN ParseOk(JsObject(<<>>), i + 2)
                ELSE parseMembers(t, i + 1, <<>>)
           [] OTHER -> ParseFail

parseElements(t, i, acc) ==
    LET e == parseValue(t, i) IN
    IF ~e.ok \/ e.next > Len(t) THEN ParseFail
    ELSE IF t[e.next] = "]" THEN ParseOk(JsArray(Append(acc, e.val)), e.next + 1)
    ELSE IF t[e.next] = "," THEN parseElements(t, e.next + 1, Append(acc, e.val))
    ELSE ParseFail

parseMembers(t, i, acc) ==
    IF i + 3 > Len(t) \/ t[i] # "\"" \/ t[i + 2] # "\"" \/ t[i + 3] # ":"
    THEN ParseFail
    ELSE LET e == parseValue(t, i + 4)
             m == Member(unquoteChars(t[i + 1]), e.val)
         IN IF ~e.ok \/ e.next > Len(t) THEN ParseFail
            ELSE IF t[e.next] = "}"
                 THEN ParseOk(JsObject(Append(acc, m)), e.next + 1)
            ELSE IF t[e.next] = ","
                 THEN parseMembers(t, e.next + 1, Append(acc, m))
            ELSE ParseFail

\* JSON.parse(text): ok = FALSE where it throws a SyntaxError.
JSONparse(text) ==
    LET p == parseValue(text, 1) IN
    IF p.ok /\ p.next = Len(text) + 1 THEN p ELSE ParseFail

RECURSIVE textBytes(_, _)
textBytes(text, i) ==
    IF i > Len(text) THEN 0 ELSE Len(text[i]) + textBytes(text, i + 1)

\* Buffer.from(text, "utf8") and Buffer.prototype.toString("utf8").
bufferFromUtf8(text) == Buf(textBytes(text, 1), Content("utf8", 0, text))

utf8ToString(buf) ==
    IF buf.val.k = "utf8" THEN buf.val.s ELSE <<"\\uFFFD">>

\* ------------------------------------------------------------------------
\* State
\* ------------------------------------------------------------------------
VARIABLES
    sealed,     \* node:crypto, ideal: every seal performed so far
    nRandom,    \* number of values drawn with randomBytes so far
    calls,      \* number of direct encryptTransaction calls of the caller
    produced,   \* history: the successful encryptTransaction calls, in order
    hand,       \* the caller's record object, which the caller may mutate
    res,        \* outcome of the caller's last library call
    envKey,     \* process.env.MASTER_KEY_HEX
    store,      \* the server's Map<string, TxSecureRecord>
    posts,      \* number of POST /tx/encrypt requests that reached the library
    acked,      \* history: the records sent with status 201, in order
    resp,       \* the server's last response
    caught      \* what the last request handler's catch block caught

vars ==
    <<sealed, nRandom, calls, produced, hand, res, envKey, store, posts, acked, resp,
      caught>>

\* ------------------------------------------------------------------------
\* node:crypto
\* ------------------------------------------------------------------------
\* randomBytes(n): the i-th random value drawn, different from all others.
randomBytes(n, i) == Buf(n, Content("random", i, <<>>))

\* randomUUID(): the i-th identifier drawn.
UuidNames == <<"uuid-1", "uuid-2", "uuid-3", "uuid-4", "uuid-5", "uuid-6">>
randomUUID(i) == UuidNames[i]

\* new Date().toISOString(): the clock reading of the i-th record; the
\* clock advances between two records.
IsoTimes == <<"2026-11-02T10:00:00.001Z", "2026-11-02T10:00:00.002Z",
             "2026-11-02T10:00:00.003Z", "2026-11-02T10:00:00.004Z",
             "2026-11-02T10:00:00.005Z", "2026-11-02T10:00:00.006Z">>
toISOString(i) == IsoTimes[i]

\* The texts of the model Date.parse accepts.
ParseableDates == {IsoTimes[i] : i \in DOMAIN IsoTimes} \cup {"2026-11-02"}
dateParseIsNaN(text) == text \notin ParseableDates

aesGcmEncryptError(key) ==
    IF key.len # KEY_BYTES THEN "key: invalid length" ELSE NoError

\* Mutant: the seal leaves the associated data out (no cipher.setAAD).
aesGcmEncrypt_noAAD(key, plaintext, aad, n) ==
    [key |-> key,
     nonce |-> randomBytes(NONCE_BYTES, n),
     ciphertext |-> Buf(plaintext.len, Content("ciphertext", n, <<>>)),
     tag |-> Buf(TAG_BYTES, Content("tag", n, <<>>)),
     aad |-> Buf(0, Content("utf8", 0, <<>>)),
     plaintext |-> plaintext]

\* Mutant: the plaintext is returned in place of the cipher's output.
aesGcmEncrypt_plaintextOut(key, plaintext, aad, n) ==
    [key |-> key,
     nonce |-> randomBytes(NONCE_BYTES, n),
     ciphertext |-> plaintext,
     tag |-> Buf(TAG_BYTES, Content("tag", n, <<>>)),
     aad |-> aad,
     plaintext |-> plaintext]

\* aesGcmEncrypt, its nonce being the n-th random value drawn: a ciphertext
\* as long as the plaintext and a 16-byte tag, both proper to this seal.
aesGcmEncrypt(key, plaintext, aad, n) ==
    [key |-> key,
     nonce |-> randomBytes(NONCE_BYTES, n),
     ciphertext |-> Buf(plaintext.len, Content("ciphertext", n, <<>>)),
     tag |-> Buf(TAG_BYTES, Content("tag", n, <<>>)),
     aad |-> aad,
     plaintext |-> plaintext]

\* Mutant: the tag is not verified (update without final).
Opens_tagUnchecked(table, key, nonce, ciphertext, tag, aad) ==
    {e \in table : /\ e.key = key
                   /\ e.nonce = nonce
                   /\ e.ciphertext = ciphertext
                   /\ e.aad = aad}

\* The seals that createDecipheriv/setAAD/setAuthTag/update/final accept.
Opens(table, key, nonce, ciphertext, tag, aad) ==
    {e \in table : /\ e.key = key
                   /\ e.nonce = nonce
                   /\ e.ciphertext = ciphertext
                   /\ e.tag = tag
                   /\ e.aad = aad}

\* Mutant: without the try/catch, the error of decipher.final() shows.
aesGcmDecryptError_uncaught(table, key, nonce, ciphertext, tag, aad) ==
    IF key.len # KEY_BYTES THEN "key: invalid length"
    ELSE IF nonce.len # NONCE_BYTES THEN "nonce: invalid length"
    ELSE IF tag.len # TAG_BYTES THEN "tag: invalid length"
    ELSE IF Opens(table, key, nonce, ciphertext, tag, aad) = {}
         THEN "Unsupported state or unable to authenticate data"
    ELSE NoError

aesGcmDecryptError(table, key, nonce, ciphertext, tag, aad) ==
    IF key.len # KEY_BYTES THEN "key: invalid length"
    ELSE IF nonce.len # NONCE_BYTES THEN "nonce: invalid length"
    ELSE IF tag.len # TAG_BYTES THEN "tag: invalid length"
    ELSE IF Opens(table, key, nonce, ciphertext, tag, aad) = {}
         THEN "decryption failed"
    ELSE NoError

aesGcmDecrypt(table, key, nonce, ciphertext, tag, aad) ==
    (CHOOSE e \in Opens(table, key, nonce, ciphertext, tag, aad) : TRUE).plaintext

\* ------------------------------------------------------------------------
\* envelope.ts: records
\* ------------------------------------------------------------------------
EmptyHex == Hex(TRUE, 0, FALSE, Content("none", 0, <<>>))

NoRecord ==
    [id |-> "", partyId |-> "", createdAt |-> "",
     payload_nonce |-> EmptyHex, payload_ct |-> EmptyHex, payload_tag |-> EmptyHex,
     dek_wrap_nonce |-> EmptyHex, dek_wrapped |-> EmptyHex, dek_wrap_tag |-> EmptyHex,
     alg |-> "", mk_version |-> 0]

\* Mutant: partyId is left out of the associated data.
aadOf_noPartyId(id, partyId, createdAt, alg, mk_version) ==
    bufferFromUtf8(
        serializeProperty(JsObject(<<
            Member("id", JsVal("string", id)),
            Member("createdAt", JsVal("string", createdAt)),
            Member("alg", JsVal("string", alg)),
            Member("mk_version", JsVal("number", ToString(mk_version)))>>)))

\* Buffer.from(JSON.stringify({id, partyId, createdAt, alg, mk_version}), "utf8")
aadOf(id, partyId, createdAt, alg, mk_version) ==
    bufferFromUtf8(
        serializeProperty(JsObject(<<
            Member("id", JsVal("string", id)),
            Member("partyId", JsVal("string", partyId)),
            Member("createdAt", JsVal("string", createdAt)),
            Member("alg", JsVal("string", alg)),
            Member("mk_version", JsVal("number", ToString(mk_version)))>>)))

EncryptFail(message, steps) ==
    [err |-> message, steps |-> steps, record |-> NoRecord,
     dek |-> Buf(0, Content("none", 0, <<>>)), seals |-> {}]

\* encryptTransaction(input), with what it reads from its environment: the
\* identifier, the clock reading, and the number n of random values drawn
\* before the call.  steps lists what the call did, in order.
encryptTransaction(partyId, payload, masterKeyHex, id, createdAt, n) ==
    LET keyError == parseMasterKeyHexError(masterKeyHex)
        masterKey == parseMasterKeyHex(masterKeyHex)
        dek == randomBytes(KEY_BYTES, n + 1)
        payloadJson == JSONstringify(payload)
        payloadBuffer == bufferFromUtf8(payloadJson.text)
        aad == aadOf(id, partyId, createdAt, AlgTag, MkVersion)
        payloadEncrypted == aesGcmEncrypt(dek, payloadBuffer, aad, n + 2)
        wrappedDek == aesGcmEncrypt(masterKey, dek, aad, n + 3)
    IN  IF partyId = ""
        THEN EncryptFail("partyId is required", <<"partyId">>)
        ELSE IF keyError # NoError
        THEN EncryptFail(keyError, <<"partyId", "masterKey">>)
        ELSE IF payloadJson.out = "throw"
        THEN [EncryptFail(payloadJson.message,
                          <<"partyId", "masterKey", "dek", "stringify">>)
                EXCEPT !.dek = dek]
        ELSE IF payloadJson.out = "undefined"
        THEN [EncryptFail("payload is not JSON-serializable",
                          <<"partyId", "masterKey", "dek", "stringify">>)
                EXCEPT !.dek = dek]
        ELSE IF aesGcmEncryptError(dek) # NoError
        THEN [EncryptFail(aesGcmEncryptError(dek),
                          <<"partyId", "masterKey", "dek", "stringify">>)
                EXCEPT !.dek = dek]
        ELSE IF aesGcmEncryptError(masterKey) # NoError
        THEN [EncryptFail(aesGcmEncryptError(masterKey),
                          <<"partyId", "masterKey", "dek", "stringify", "seal">>)
                EXCEPT !.dek = dek, !.seals = {payloadEncrypted}]
        ELSE [err |-> NoError,
              steps |-> <<"partyId", "masterKey", "dek", "stringify", "seal", "seal">>,
              record |->
                [id |-> id,
                 partyId |-> partyId,
                 createdAt |-> createdAt,
                 payload_nonce |-> toHex(payloadEncrypted.nonce),
                 payload_ct |-> toHex(payloadEncrypted.ciphertext),
                 payload_tag |-> toHex(payloadEncrypted.tag),
                 dek_wrap_nonce |-> toHex(wrappedDek.nonce),
                 dek_wrapped |-> toHex(wrappedDek.ciphertext),
                 dek_wrap_tag |-> toHex(wrappedDek.tag),
                 alg |-> AlgTag,
                 mk_version |-> MkVersion],
              dek |-> dek,
              seals |-> {payloadEncrypted, wrappedDek}]

\* The first error of a list of checks, in order.
RECURSIVE firstError(_, _)
firstError(errors, i) ==
    IF i > Len(errors) THEN NoError
    ELSE IF errors[i] # NoError THEN errors[i]
    ELSE firstError(errors, i + 1)

\* Mutant: alg is not checked.
validateRecordShape_algUnchecked(record) ==
    firstError(<<
        IF record.id = "" THEN "id is required" ELSE NoError,
        IF record.partyId = "" THEN "partyId is required" ELSE NoError,
        IF record.createdAt = "" THEN "createdAt is required" ELSE NoError,
        IF dateParseIsNaN(record.createdAt) THEN "createdAt: invalid format" ELSE NoError,
        IF record.mk_version # 1 THEN "unsupported master key version" ELSE NoError,
        assertHexLength(record.payload_nonce, NONCE_BYTES, "payload_nonce"),
        assertHexLength(record.payload_tag, TAG_BYTES, "payload_tag"),
        assertHexLength(record.dek_wrap_nonce, NONCE_BYTES, "dek_wrap_nonce"),
        assertHexLength(record.dek_wrap_tag, TAG_BYTES, "dek_wrap_tag"),
        fromHexError(record.payload_ct, "payload_ct"),
        fromHexError(record.dek_wrapped, "dek_wrapped")>>, 1)

\* validateRecordShape(record): the error it throws.
validateRecordShape(record) ==
    firstError(<<
        IF record.id = "" THEN "id is required" ELSE NoError,
        IF record.partyId = "" THEN "partyId is required" ELSE NoError,
        IF record.createdAt = "" THEN "createdAt is required" ELSE NoError,
        IF dateParseIsNaN(record.createdAt) THEN "createdAt: invalid format" ELSE NoError,
        IF record.alg # "AES-256-GCM" THEN "unsupported algorithm" ELSE NoError,
        IF record.mk_version # 1 THEN "unsupported master key version" ELSE NoError,
        assertHexLength(record.payload_nonce, NONCE_BYTES, "payload_nonce"),
        assertHexLength(record.payload_tag, TAG_BYTES, "payload_tag"),
        assertHexLength(record.dek_wrap_nonce, NONCE_BYTES, "dek_wrap_nonce"),
        assertHexLength(record.dek_wrap_tag, TAG_BYTES, "dek_wrap_tag"),
        fromHexError(record.payload_ct, "payload_ct"),
        fromHexError(record.dek_wrapped, "dek_wrapped")>>, 1)

DecryptFail(message, steps) ==
    [err |-> message, steps |-> steps, val |-> JsUndefined]

\* decryptTransaction(input) against the seals performed so far.  steps
\* lists what the call did, in order.
decryptTransaction(record, masterKeyHex, table) ==
    LET shapeError == validateRecordShape(record)
        keyError == parseMasterKeyHexError(masterKeyHex)
        masterKey == parseMasterKeyHex(masterKeyHex)
        aad == aadOf(record.id, record.partyId, record.createdAt,
                     record.alg, record.mk_version)
        dekError == aesGcmDecryptError(table, masterKey,
                        fromHex(record.dek_wrap_nonce), fromHex(record.dek_wrapped),
                        fromHex(record.dek_wrap_tag), aad)
        dek == aesGcmDecrypt(table, masterKey,
                        fromHex(record.dek_wrap_nonce), fromHex(record.dek_wrapped),
                        fromHex(record.dek_wrap_tag), aad)
        plainError == aesGcmDecryptError(table, dek,
                        fromHex(record.payload_nonce), fromHex(record.payload_ct),
                        fromHex(record.payload_tag), aad)
        plaintext == aesGcmDecrypt(table, dek,
                        fromHex(record.payload_nonce), fromHex(record.payload_ct),
                        fromHex(record.payload_tag), aad)
        parsed == JSONparse(utf8ToString(plaintext))
    IN  IF shapeError # NoError
        THEN DecryptFail(shapeError, <<"validate">>)
        ELSE IF keyError # NoError
        THEN DecryptFail(keyError, <<"validate", "masterKey">>)
        ELSE IF dekError # NoError
        THEN DecryptFail(dekError, <<"validate", "masterKey", "open">>)
        ELSE IF dek.len # KEY_BYTES
        THEN DecryptFail("decryption failed", <<"validate", "masterKey", "open">>)
        ELSE IF plainError # NoError
        THEN DecryptFail(plainError, <<"validate", "masterKey", "open", "open">>)
        ELSE IF ~parsed.ok
        THEN DecryptFail("decryption failed",
                         <<"validate", "masterKey", "open", "open", "parse">>)
        ELSE [err |-> NoError,
              steps |-> <<"validate", "masterKey", "open", "open", "parse">>,
              val |-> parsed.val]

\* ------------------------------------------------------------------------
\* Inputs of the model
\* ------------------------------------------------------------------------
MasterKey(i) == Content("masterKey", i, <<>>)
Key1 == Hex(TRUE, 2 * KEY_BYTES, FALSE, MasterKey(1))
Key1Upper == Hex(TRUE, 2 * KEY_BYTES, TRUE, MasterKey(1))
Key2 == Hex(TRUE, 2 * KEY_BYTES, FALSE, MasterKey(2))
KeyShort == Hex(TRUE, KEY_BYTES, FALSE, MasterKey(3))
KeyNotHex == Hex(FALSE, 2, FALSE, Content("none", 0, <<>>))
KeyHexes == {Key1, Key1Upper, Key2, KeyNotHex}
EncryptKeyHexes == {Key1, KeyShort, KeyNotHex}

PartyIds == {"", "party_123"}

Amount(v) == JsObject(<<Member("amount", v)>>)
AmountAED ==
    JsObject(<<Member("amount", JsVal("number", "100")),
               Member("currency", JsVal("string", "AED"))>>)
Payloads ==
    {JsUndefined,
     JsVal("function", ""),
     JsVal("bigint", "100"),
     JsVal("circular", ""),
     Amount(JsVal("bigint", "100")),
     JsVal("number", "NaN"),
     AmountAED,
     Amount(JsUndefined),
     JsArray(<<JsUndefined>>)}

\* ------------------------------------------------------------------------
\* The caller of the library
\* ------------------------------------------------------------------------
\* Before any call the caller holds a record object it has built itself,
\* with every field blank.
NoHand == [rec |-> NoRecord, tampers |-> 0]

NoResult ==
    [op |-> "none", partyId |-> "", payload |-> JsUndefined, key |-> KeyNotHex,
     record |-> NoRecord, err |-> NoError, val |-> JsUndefined, steps |-> <<>>]

Produced(partyId, payload, masterKeyHex, out) ==
    [partyId |-> partyId, payload |-> payload, key |-> masterKeyHex,
     record |-> out.record, dek |-> out.dek]

\* The number of the next record.
NextUuid == Len(produced) + 1

\* The random values a call of encryptTransaction has drawn: the DEK, and
\* one nonce for each seal.
Drawn(out) == (IF out.dek.len > 0 THEN 1 ELSE 0) + Cardinality(out.seals)

\* A direct call of encryptTransaction; the caller keeps the record it
\* returns, and is left with a blank one when the call throws.
EncryptCall ==
    /\ calls < MaxCalls
    /\ \E partyId \in PartyIds, payload \in Payloads, key \in EncryptKeyHexes :
        LET out == encryptTransaction(partyId, payload, key, randomUUID(NextUuid),
                                      toISOString(NextUuid), nRandom)
        IN  /\ calls' = calls + 1
            /\ sealed' = sealed \cup out.seals
            /\ nRandom' = nRandom + Drawn(out)
            /\ produced' = IF out.err = NoError
                           THEN Append(produced, Produced(partyId, payload, key, out))
                           ELSE produced
            /\ hand' = [rec |-> out.record, tampers |-> 0]
            /\ res' = [op |-> "encrypt", partyId |-> partyId, payload |-> payload,
                       key |-> key, record |-> out.record, err |-> out.err,
                       val |-> JsUndefined, steps |-> out.steps]
    /\ UNCHANGED <<envKey, store, posts, acked, resp, caught>>

\* What the caller may write into a field of the record at hand.
FlipByte(hex) == [hex EXCEPT !.b = Content("flipped", hex.b.i, hex.b.s)]
UpperCase(hex) == [hex EXCEPT !.up = TRUE]
OneByte == Hex(TRUE, 2, FALSE, Content("zero", 0, <<>>))
NotHex == Hex(FALSE, 2, FALSE, Content("none", 0, <<>>))

HexFields == {"payload_nonce", "payload_ct", "payload_tag",
              "dek_wrap_nonce", "dek_wrapped", "dek_wrap_tag"}
Fields == {"id", "partyId", "createdAt", "alg", "mk_version"} \cup HexFields

CounterpartOf(field) ==
    CASE field = "payload_nonce" -> "dek_wrap_nonce"
      [] field = "payload_ct" -> "dek_wrapped"
      [] field = "payload_tag" -> "dek_wrap_tag"
      [] field = "dek_wrap_nonce" -> "payload_nonce"
      [] field = "dek_wrapped" -> "payload_ct"
      [] field = "dek_wrap_tag" -> "payload_tag"

Others(field) == {produced[i].record[field] : i \in 1..Len(produced)}

TamperValues(rec, field) ==
    CASE field = "id" -> {"", "uuid-0"} \cup Others(field)
      [] field = "partyId" -> {"", "party_999"}
      [] field = "createdAt" -> {"", "yesterday", "2026-11-02"} \cup Others(field)
      [] field = "alg" -> {"AES-128-GCM"}
      [] field = "mk_version" -> {2}
      [] field \in {"payload_ct", "dek_wrap_tag"} ->
            {FlipByte(rec[field]), UpperCase(rec[field]), OneByte, NotHex,
             rec[CounterpartOf(field)]} \cup Others(field)
      [] OTHER -> {FlipByte(rec[field]), OneByte, NotHex,
                   rec[CounterpartOf(field)]} \cup Others(field)

\* The caller assigns to a field of the record at hand, before decrypting.
Tamper ==
    /\ hand.tampers < MaxTampers
    /\ res.op # "decrypt"
    /\ res.err = NoError
    /\ \E field \in Fields :
         \E value \in TamperValues(hand.rec, field) :
            /\ value # hand.rec[field]
            /\ hand' = [hand EXCEPT !.rec[field] = value, !.tampers = @ + 1]
    /\ UNCHANGED <<sealed, nRandom, calls, produced, res, envKey, store, posts, acked, resp,
                 caught>>

\* A direct call of decryptTransaction on the record at hand.
DecryptCall ==
    /\ \E key \in KeyHexes :
        LET out == decryptTransaction(hand.rec, key, sealed)
        IN  res' = [op |-> "decrypt", partyId |-> "", payload |-> JsUndefined,
                    key |-> key, record |-> hand.rec, err |-> out.err,
                    val |-> out.val, steps |-> out.steps]
    /\ UNCHANGED <<sealed, nRandom, calls, produced, hand, envKey, store, posts, acked, resp,
                 caught>>

\* ------------------------------------------------------------------------
\* The server
\* ------------------------------------------------------------------------
EnvUnset == Hex(TRUE, 0, FALSE, Content("none", 0, <<>>))
EnvKeys == {EnvUnset, Key1, Key2, KeyShort}

\* getMasterKeyHex(): the error it throws.
getMasterKeyHexError(env) ==
    IF env.n = 0 THEN "MASTER_KEY_HEX is not set" ELSE NoError

\* A request body: obj = it is a non-null object; partyIdType = typeof
\* body.partyId; hasPayload = "payload" in body.
Body(obj, partyIdType, partyId, hasPayload, payload) ==
    [obj |-> obj, partyIdType |-> partyIdType, partyId |-> partyId,
     hasPayload |-> hasPayload, payload |-> payload]

JsonPayloads == {JsNull, JsVal("number", "100"), AmountAED}

Bodies ==
    {Body(FALSE, "undefined", "", FALSE, JsUndefined),
     Body(TRUE, "undefined", "", TRUE, JsVal("number", "100")),
     Body(TRUE, "number", "", TRUE, JsVal("number", "100")),
     Body(TRUE, "string", "party_123", FALSE, JsUndefined)}
    \cup {Body(TRUE, "string", p, TRUE, v) : p \in PartyIds, v \in JsonPayloads}

isRecordInput(body) ==
    body.obj /\ body.partyIdType = "string" /\ body.hasPayload

\* A response, with the route and the :id of the request it answers.
Response(route, id, status, error, record, payload) ==
    [route |-> route, id |-> id, status |-> status, error |-> error,
     record |-> record, payload |-> payload]

NoResponse == Response("", "", 0, "", NoRecord, JsUndefined)

\* The value a handler's catch block receives: the call that threw it, whether
\* it is an instance of Error, and its message.
Thrown(by, isError, message) == [by |-> by, isError |-> isError, message |-> message]

NothingCaught == Thrown("", FALSE, "")

\* normalizeError(err)
normalizeError(err) == IF err.isError THEN err.message ELSE "Unknown error"

\* Mutant: the map is replaced instead of extended.
StoreSet_replaced(map, id, record) == [i \in {id} |-> record]

\* store.set(id, record)
StoreSet(map, id, record) ==
    [i \in (DOMAIN map) \cup {id} |-> IF i = id THEN record ELSE map[i]]

\* POST /tx/encrypt
PostEncrypt ==
    \E body \in Bodies :
        IF ~isRecordInput(body)
        THEN /\ resp' = Response("encrypt", "", 400,
                    "Invalid body. Expected { partyId: string, payload: unknown }",
                    NoRecord, JsUndefined)
             /\ caught' = NothingCaught
             /\ UNCHANGED <<sealed, nRandom, produced, store, posts, acked>>
             /\ UNCHANGED <<envKey, calls, hand, res>>
        ELSE IF getMasterKeyHexError(envKey) # NoError
        THEN LET err == Thrown("getMasterKeyHex", TRUE, getMasterKeyHexError(envKey))
             IN
             /\ caught' = err
             /\ resp' = Response("encrypt", "", 400, normalizeError(err),
                                      NoRecord, JsUndefined)
             /\ UNCHANGED <<sealed, nRandom, produced, store, posts, acked>>
             /\ UNCHANGED <<envKey, calls, hand, res>>
        ELSE LET out == encryptTransaction(body.partyId, body.payload, envKey,
                            randomUUID(NextUuid), toISOString(NextUuid), nRandom)
                 err == Thrown("encryptTransaction", TRUE, out.err)
             IN  /\ posts < MaxPosts
                 /\ posts' = posts + 1
                 /\ sealed' = sealed \cup out.seals
                 /\ nRandom' = nRandom + Drawn(out)
                 /\ produced' = IF out.err = NoError
                                THEN Append(produced,
                                        Produced(body.partyId, body.payload, envKey, out))
                                ELSE produced
                 /\ store' = IF out.err = NoError
                             THEN StoreSet(store, out.record.id, out.record)
                             ELSE store
                 /\ acked' = IF out.err = NoError
                             THEN Append(acked, out.record)
                             ELSE acked
                 /\ caught' = IF out.err = NoError THEN NothingCaught ELSE err
                 /\ resp' = IF out.err = NoError
                            THEN Response("encrypt", "", 201, "", out.record, JsUndefined)
                            ELSE Response("encrypt", "", 400, normalizeError(err),
                                          NoRecord, JsUndefined)
                 /\ UNCHANGED <<envKey, calls, hand, res>>

RequestIds == {"uuid-0"} \cup {randomUUID(i) : i \in 1..MaxPosts}

\* GET /tx/:id
GetTx ==
    /\ \E id \in RequestIds :
        IF id \notin DOMAIN store
        THEN resp' = Response("get", id, 404, "Record not found", NoRecord, JsUndefined)
        ELSE resp' = Response("get", id, 200, "", store[id], JsUndefined)
    /\ caught' = NothingCaught
    /\ UNCHANGED <<sealed, nRandom, calls, produced, hand, res, envKey, store, posts, acked>>

\* POST /tx/:id/decrypt
PostDecrypt ==
    /\ \E id \in RequestIds :
        IF id \notin DOMAIN store
        THEN /\ caught' = NothingCaught
             /\ resp' = Response("decrypt", id, 404, "Record not found", NoRecord,
                                 JsUndefined)
        ELSE IF getMasterKeyHexError(envKey) # NoError
        THEN LET err == Thrown("getMasterKeyHex", TRUE, getMasterKeyHexError(envKey))
             IN
             /\ caught' = err
             /\ resp' = Response("decrypt", id, 400, normalizeError(err),
                                 NoRecord, JsUndefined)
        ELSE LET out == decryptTransaction(store[id], envKey, sealed)
                 err == Thrown("decryptTransaction", TRUE, out.err)
             IN
             /\ caught' = IF out.err = NoError THEN NothingCaught ELSE err
             /\ resp' = IF out.err = NoError
                         THEN Response("decrypt", id, 200, "",
                                [NoRecord EXCEPT !.id = store[id].id,
                                                 !.partyId = store[id].partyId],
                                out.val)
                         ELSE Response("decrypt", id, 400, normalizeError(err),
                                       NoRecord, JsUndefined)
    /\ UNCHANGED <<sealed, nRandom, calls, produced, hand, res, envKey, store, posts, acked>>

\* ------------------------------------------------------------------------
\* Specifications
\* ------------------------------------------------------------------------
InitCommon ==
    /\ sealed = {}
    /\ nRandom = 0
    /\ calls = 0
    /\ produced = <<>>
    /\ hand = NoHand
    /\ res = NoResult
    /\ store = <<>>
    /\ posts = 0
    /\ acked = <<>>
    /\ resp = NoResponse
    /\ caught = NothingCaught

\* The library and its caller.
Init == InitCommon /\ envKey = EnvUnset
Next == EncryptCall \/ Tamper \/ DecryptCall
Spec == Init /\ [][Next]_vars

\* The server and its clients.
InitServer == InitCommon /\ envKey \in EnvKeys
NextServer == PostEncrypt \/ GetTx \/ PostDecrypt
SpecServer == InitServer /\ [][NextServer]_vars

\* ------------------------------------------------------------------------
\* Vocabulary of the properties
\* ------------------------------------------------------------------------
Records == 1..Len(produced)

\* Two hex texts spell the same bytes.
SameBytes(h1, h2) == h1.n = h2.n /\ h1.b = h2.b

\* A hex text of 64 hex digits: a 32-byte master key.
ValidKey(h) == h.wf /\ h.n = 64

\* The hex text decodes to exactly `bytes` bytes.
DecodesTo(h, bytes) == h.wf /\ h.n = 2 * bytes

\* Hex text as the validator understands it: digits only, in pairs, not empty.
HexText(h) == h.wf /\ h.n % 2 = 0 /\ h.n > 0

\* r is o with at most the fields F assigned to.
OnlyChanged(r, o, F) == \A f \in Fields \ F : r[f] = o[f]

Decrypted == res.op = "decrypt"
Encrypted == res.op = "encrypt"
AuthenticationFailed == "decryption failed"

\* The last call was decryptTransaction with the key of record i.
DecryptedWithKeyOf(i) ==
    Decrypted /\ ValidKey(res.key) /\ SameBytes(res.key, produced[i].key)

\* A JSON value: null, a boolean, a finite number, a string, or an array
\* or plain object of JSON values.
RECURSIVE IsJsonValue(_)
IsJsonValue(v) ==
    CASE v.kind \in {"null", "boolean", "string"} -> TRUE
      [] v.kind = "number" -> v.lit \in NumberTokens
      [] v.kind = "array" -> \A i \in 1..Len(v.kids) : IsJsonValue(v.kids[i])
      [] v.kind = "object" -> \A i \in 1..Len(v.kids) : IsJsonValue(v.kids[i].val)
      [] OTHER -> FALSE

\* ------------------------------------------------------------------------
\* C1  Round trip
\* ------------------------------------------------------------------------
\* C1 as stated: decrypting the record encryptTransaction returned for a
\* serializable payload P, with the same master key, succeeds and returns
\* a value equal to P.
C1_RoundTripAnyPayload ==
    \A i \in Records :
        (DecryptedWithKeyOf(i) /\ res.record = produced[i].record)
            => (res.err = NoError /\ res.val = produced[i].payload)

\* C1 amended: decrypting the record encryptTransaction returned, with
\* the same master key, succeeds; it returns a value equal to P whenever P
\* is a JSON value.
C1_RoundTripJson ==
    \A i \in Records :
        (DecryptedWithKeyOf(i) /\ res.record = produced[i].record)
            => /\ res.err = NoError
               /\ IsJsonValue(produced[i].payload) => res.val = produced[i].payload

C1_Witness ==
    \E i \in Records :
        /\ DecryptedWithKeyOf(i)
        /\ res.record = produced[i].record
        /\ IsJsonValue(produced[i].payload)
        /\ res.val = produced[i].payload
        /\ res.val.kind = "object"

\* ------------------------------------------------------------------------
\* C2  Payload-layer tamper detection
\* ------------------------------------------------------------------------
PayloadLayer == {"payload_ct", "payload_tag"}

\* Field f of r holds valid hex of the original length spelling other bytes.
ByteChanged(r, o, f) ==
    /\ HexText(r[f])
    /\ r[f].n = o[f].n
    /\ r[f].b # o[f].b

\* C2: a record of encryptTransaction in which bytes of payload_ct or of
\* payload_tag were changed, nothing else, fails to decrypt under its key
\* with "decryption failed".
C2_PayloadTamperDetected ==
    \A i \in Records : \A f \in PayloadLayer :
        (/\ DecryptedWithKeyOf(i)
         /\ OnlyChanged(res.record, produced[i].record, {f})
         /\ ByteChanged(res.record, produced[i].record, f))
            => res.err = AuthenticationFailed

C2_Witness ==
    \E i \in Records :
        /\ DecryptedWithKeyOf(i)
        /\ OnlyChanged(res.record, produced[i].record, {"payload_tag"})
        /\ ByteChanged(res.record, produced[i].record, "payload_tag")
        /\ res.err = AuthenticationFailed

\* ------------------------------------------------------------------------
\* C3  Metadata binding
\* ------------------------------------------------------------------------
Metadata == {"id", "partyId", "createdAt"}

MetadataChanged(i, f) ==
    /\ DecryptedWithKeyOf(i)
    /\ OnlyChanged(res.record, produced[i].record, {f})
    /\ res.record[f] # produced[i].record[f]

\* The value is one validateRecordShape accepts for the field.
WellFormedMetadata(f, value) ==
    value # "" /\ (f = "createdAt" => value \in ParseableDates)

ShapeErrorOf(f, value) ==
    IF value = "" THEN f \o " is required" ELSE "createdAt: invalid format"

\* C3 as stated: changing id, partyId or createdAt of a record to any
\* different value makes decryption under its key fail with
\* "decryption failed".
C3_AnyMetadataChangeFailsAuth ==
    \A i \in Records : \A f \in Metadata :
        MetadataChanged(i, f) => res.err = AuthenticationFailed

\* C3 amended: changing id, partyId or createdAt to a different non-empty
\* value (for createdAt: one that still parses as a date) makes decryption
\* fail with "decryption failed"; changing it to an empty or unparseable
\* value fails in validateRecordShape with that field's structural error.
C3_MetadataBound ==
    \A i \in Records : \A f \in Metadata :
        MetadataChanged(i, f) =>
            res.err = IF WellFormedMetadata(f, res.record[f])
                      THEN AuthenticationFailed
                      ELSE ShapeErrorOf(f, res.record[f])

C3_Witness ==
    \E i \in Records :
        /\ MetadataChanged(i, "partyId")
        /\ res.record.partyId = "party_999"
        /\ res.err = AuthenticationFailed

\* ------------------------------------------------------------------------
\* C4  Wrong key
\* ------------------------------------------------------------------------
DecryptedWithOtherKey(i) ==
    /\ Decrypted
    /\ res.record = produced[i].record
    /\ ValidKey(res.key)
    /\ ~SameBytes(res.key, produced[i].key)

\* C4: decrypting a record of encryptTransaction with a valid 32-byte
\* master key other than the one it was encrypted under fails with
\* "decryption failed" and returns no payload.
C4_WrongKeyFails ==
    \A i \in Records :
        DecryptedWithOtherKey(i)
            => (res.err = AuthenticationFailed /\ res.val = JsUndefined)

C4_Witness ==
    \E i \in Records :
        DecryptedWithOtherKey(i) /\ res.err = AuthenticationFailed

\* ------------------------------------------------------------------------
\* C5  Hex and length validation precede crypto
\* ------------------------------------------------------------------------
MetadataValid(r) ==
    /\ r.id # "" /\ r.partyId # ""
    /\ r.createdAt \in ParseableDates
    /\ r.alg = AlgTag /\ r.mk_version = MkVersion

ExpectedBytes(f) ==
    IF f \in {"payload_nonce", "dek_wrap_nonce"} THEN NONCE_BYTES ELSE TAG_BYTES

SizedFields == {"payload_nonce", "payload_tag", "dek_wrap_nonce", "dek_wrap_tag"}

\* The errors that name an offending field of r.
EncodingErrors(r) == {f \o ": invalid hex" : f \in {g \in HexFields : ~HexText(r[g])}}
LengthErrors(r) ==
    {f \o ": invalid length" :
        f \in {g \in SizedFields : HexText(r[g]) /\ ~DecodesTo(r[g], ExpectedBytes(g))}}

\* C5: on a record with valid metadata, a nonce or tag field that does not
\* decode to 12 resp. 16 bytes, or a payload_ct or dek_wrapped that is not
\* valid hex, makes decryptTransaction fail with the invalid-length or
\* invalid-hex error of an offending field, before any AEAD open.
C5_HexValidationPrecedesCrypto ==
    (/\ Decrypted
     /\ MetadataValid(res.record)
     /\ EncodingErrors(res.record) \cup LengthErrors(res.record) # {})
        => /\ res.err \in EncodingErrors(res.record) \cup LengthErrors(res.record)
           /\ \A k \in 1..Len(res.steps) : res.steps[k] # "open"

C5_Witness ==
    /\ Decrypted
    /\ MetadataValid(res.record)
    /\ res.record.payload_nonce = OneByte
    /\ res.err = "payload_nonce: invalid length"
    /\ res.steps = <<"validate">>

\* ------------------------------------------------------------------------
\* C6  Unsupported alg or mk_version fails closed before key material
\* ------------------------------------------------------------------------
Unsupported(r) == r.alg # AlgTag \/ r.mk_version # MkVersion

UnsupportedError(r) ==
    IF r.alg # AlgTag THEN "unsupported algorithm"
    ELSE "unsupported master key version"

NoKeyMaterialTouched ==
    \A k \in 1..Len(res.steps) : res.steps[k] \notin {"masterKey", "open"}

\* The errors of the checks validateRecordShape makes before alg.
EarlierShapeErrors ==
    {"id is required", "partyId is required", "createdAt is required",
     "createdAt: invalid format"}

\* C6 as stated: on any record whose alg or mk_version is not the
\* supported one, decryptTransaction fails with "unsupported algorithm"
\* resp. "unsupported master key version", before the master key is
\* parsed and before any AEAD open, whatever the master key text is.
C6_UnsupportedRejectedFirst ==
    (Decrypted /\ Unsupported(res.record))
        => (res.err = UnsupportedError(res.record) /\ NoKeyMaterialTouched)

\* C6 amended: on any record whose alg or mk_version is not the supported
\* one, decryptTransaction fails with a structural error before the master
\* key is parsed and before any AEAD open, whatever the master key text
\* is; the error is "unsupported algorithm" resp. "unsupported master key
\* version" when id, partyId and createdAt are valid, and the error of the
\* first invalid one of these otherwise.
C6_UnsupportedFailsClosed ==
    (Decrypted /\ Unsupported(res.record))
        => /\ NoKeyMaterialTouched
           /\ res.err \in EarlierShapeErrors \cup {UnsupportedError(res.record)}
           /\ res.err \in EarlierShapeErrors <=>
                ~(/\ res.record.id # "" /\ res.record.partyId # ""
                  /\ res.record.createdAt \in ParseableDates)

C6_Witness ==
    /\ Decrypted
    /\ res.record.alg = "AES-128-GCM"
    /\ res.record.id # ""
    /\ ~ValidKey(res.key)
    /\ res.err = "unsupported algorithm"
    /\ res.steps = <<"validate">>

NoSerializableRepresentation(v) ==
    v.kind \in Unrepresentable \/ stringifyThrows(v)

\* C8: encryptTransaction with a valid partyId and a valid master key, on a
\* payload that has no serializable representation, fails with "payload is
\* not JSON-serializable" and returns no record.
C8_NotSerializableRejected ==
    (/\ Encrypted
     /\ res.partyId # ""
     /\ ValidKey(res.key)
     /\ NoSerializableRepresentation(res.payload))
        => (res.err = "payload is not JSON-serializable" /\ res.record = NoRecord)

\* ------------------------------------------------------------------------
\* C9  DEK confidentiality
\* ------------------------------------------------------------------------
\* The hex text spells the bytes of buf.
Spells(h, buf) == h.wf /\ h.n = 2 * buf.len /\ h.b = buf.val

Leaks(r, buf) == \E f \in HexFields : Spells(r[f], buf)

SealsUnder(key) == {e \in sealed : e.key = key}
SealsOf(plaintext) == {e \in sealed : e.plaintext = plaintext}

\* C9: the DEK of every record is the key of exactly one seal, that of the
\* record's payload; it is the plaintext of exactly one seal, the one under
\* the master key whose ciphertext is dek_wrapped; no record returned or
\* stored and no response holds its bytes, and a response carries no
\* payload other than one a client posted.
C9_DekConfidential ==
    \A i \in Records :
        LET dek == produced[i].dek
            r == produced[i].record
        IN  /\ dek.len = KEY_BYTES
            /\ Cardinality(SealsUnder(dek)) = 1
            /\ \A e \in SealsUnder(dek) :
                    /\ toHex(e.ciphertext) = r.payload_ct
                    /\ e.plaintext.val.k = "utf8"
            /\ Cardinality(SealsOf(dek)) = 1
            /\ \A e \in SealsOf(dek) :
                    /\ e.key = parseMasterKeyHex(produced[i].key)
                    /\ toHex(e.ciphertext) = r.dek_wrapped
            /\ \A j \in Records : ~Leaks(produced[j].record, dek)
            /\ \A id \in DOMAIN store : ~Leaks(store[id], dek)
            /\ \A j \in 1..Len(acked) : ~Leaks(acked[j], dek)
            /\ ~Leaks(resp.record, dek)
            /\ resp.payload \in {JsUndefined} \cup {produced[j].payload : j \in Records}

\* Two records are stored and one has been decrypted by the server.
C9_Witness ==
    /\ Len(produced) = 2
    /\ Cardinality(DOMAIN store) = 2
    /\ resp.route = "decrypt" /\ resp.status = 200

\* ------------------------------------------------------------------------
\* C10  Record store lookup
\* ------------------------------------------------------------------------
AckedIds == {acked[j].id : j \in 1..Len(acked)}

\* C10: the store maps exactly the ids of the records sent with status
\* 201, each to that record unchanged; a fetch answers with the stored
\* record, a fetch or decrypt of any other id answers 404.
C10_StoreLookup ==
    /\ DOMAIN store = AckedIds
    /\ \A j \in 1..Len(acked) : store[acked[j].id] = acked[j]
    /\ resp.route \in {"get", "decrypt"} =>
            (resp.status = 404 <=> resp.id \notin AckedIds)
    /\ (resp.route = "get" /\ resp.id \in AckedIds) =>
            /\ resp.status = 200
            /\ \E j \in 1..Len(acked) : acked[j].id = resp.id /\ resp.record = acked[j]
    /\ resp.status = 404 => resp.error = "Record not found"

\* The first of two stored records is fetched.
C10_Witness ==
    /\ Len(acked) = 2
    /\ resp.route = "get" /\ resp.status = 200
    /\ resp.record = acked[1]

\* ------------------------------------------------------------------------
\* C11  Error surfacing at the server boundary
\* ------------------------------------------------------------------------
ClientFailure(status) == status \in 400..499

\* The last handler caught an error raised by the library.
LibraryErrorCaught == caught.by \in {"encryptTransaction", "decryptTransaction"}

\* The last handler caught a fault of the server itself.
InternalFaultCaught == caught.by = "getMasterKeyHex"

\* C11 (first half): every error raised by encryptTransaction or
\* decryptTransaction is answered with a 4xx status whose body carries that
\* error's message unchanged.
C11_LibraryErrorsAreClientFailures ==
    LibraryErrorCaught =>
        /\ ClientFailure(resp.status)
        /\ resp.error = caught.message

\* C11: every error raised by encryptTransaction or decryptTransaction is
\* answered as a client-facing 4xx failure carrying that error unchanged, and
\* a fault of the server itself (the master key not being configured in the
\* environment) is not answered as that same client failure.
C11_ErrorsSurfacedDistinctly ==
    /\ C11_LibraryErrorsAreClientFailures
    /\ InternalFaultCaught => ~ClientFailure(resp.status)

\* A library error has been answered, and so has an internal fault.
C11_LibraryErrorAnswered == LibraryErrorCaught /\ resp.status = 400
C11_InternalFaultAnswered == InternalFaultCaught /\ resp.status = 400

\* ------------------------------------------------------------------------
\* C12  Step order of the constructor
\* ------------------------------------------------------------------------
MissingField == "partyId is required"
InvalidKeyMaterial == {"master key: invalid hex", "master key: invalid length"}
NotSerializable == "payload is not JSON-serializable"
ConstructorStructuralErrors == {MissingField, NotSerializable} \cup InvalidKeyMaterial

Did(step) == \E i \in 1..Len(res.steps) : res.steps[i] = step

\* The steps of the last call are the first steps of `order`.
FollowedOrder(order) ==
    /\ Len(res.steps) <= Len(order)
    /\ \A i \in 1..Len(res.steps) : res.steps[i] = order[i]

\* The payload serializes to an absent value.
SerializesToNothing(v) == v.kind \in {"undefined", "function", "symbol"}

\* The error reported is the one of the earliest failing step.
EarliestErrorReported ==
    /\ res.partyId = "" => res.err = MissingField
    /\ (res.partyId # "" /\ ~ValidKey(res.key)) => res.err \in InvalidKeyMaterial
    /\ (res.partyId # "" /\ ValidKey(res.key) /\ SerializesToNothing(res.payload))
            => res.err = NotSerializable

\* C12, as stated: encryptTransaction checks partyId, parses the master key,
\* serializes the payload and only then generates the DEK; a call that fails
\* with MissingField, InvalidKeyMaterial or NotSerializable has generated no
\* DEK and performed no seal, and reports the error of the earliest failing
\* step.
C12_DekGeneratedAfterSerialization ==
    Encrypted =>
        /\ FollowedOrder(<<"partyId", "masterKey", "stringify", "dek", "seal", "seal">>)
        /\ res.err \in ConstructorStructuralErrors
                => (~Did("dek") /\ ~Did("seal"))
        /\ EarliestErrorReported

\* C12, amended: encryptTransaction checks partyId, parses the master key,
\* generates the DEK and only then serializes the payload, before any seal.
\* A call that fails with MissingField or InvalidKeyMaterial has generated no
\* DEK; a call that fails with NotSerializable has generated a DEK; neither
\* has performed a seal, nor returned a record; the error reported is the one
\* of the earliest failing step.
C12_StepOrder ==
    Encrypted =>
        /\ FollowedOrder(<<"partyId", "masterKey", "dek", "stringify", "seal", "seal">>)
        /\ res.err \in {MissingField} \cup InvalidKeyMaterial => ~Did("dek")
        /\ res.err = NotSerializable => (Did("dek") /\ Did("stringify"))
        /\ res.err \in ConstructorStructuralErrors
                => (~Did("seal") /\ res.record = NoRecord)
        /\ EarliestErrorReported

\* A call has failed with NotSerializable, after the DEK was generated.
C12_Witness ==
    /\ Encrypted
    /\ res.err = NotSerializable
    /\ res.steps = <<"partyId", "masterKey", "dek", "stringify">>
    /\ nRandom > 0

\* A call with a blank partyId, an invalid master key and a payload that
\* serializes to nothing has failed.
C12_SeveralDefects ==
    /\ Encrypted
    /\ res.partyId = ""
    /\ ~ValidKey(res.key)
    /\ SerializesToNothing(res.payload)
    /\ res.err = MissingField
====
